---- MODULE Spec2Model ----
(***************************************************************************)
(* finance_tracker (src/main.py): the durable per-user record store and    *)
(* the Streamlit handlers that drive it.                                   *)
(*                                                                         *)
(* The file system is a function from paths to file contents.  One action  *)
(* is one run of the Streamlit script that a button click triggers: the    *)
(* rendering code that runs before the button's branch, the branch, and    *)
(* the rerun that st.rerun() starts.  Every run takes an I/O fault as an   *)
(* input: the path whose writes fail during the run, and whether they fail *)
(* before or after the target file was touched.                            *)
(***************************************************************************)
EXTENDS Integers, Sequences, FiniteSets, TLC

\* ------------------------------------------------------------------ bounds
MaxJournal == 2      \* longest journal the session builds
MaxFaults == 1       \* runs of one behaviour that meet an I/O fault

Usernames == {"alice", "bob"}
Passwords == {"pw1", "pw2"}

\* ------------------------------------------------------------ program text
MASTER_PASSWORD == "ayoub2003"
None == "None"
AddNew == "Add new category..."
Columns == <<"Date", "Description", "Category", "Amount">>

\* hashlib.sha256(password.encode()).hexdigest(): a digest, taken as
\* collision free on the passwords of the model.
hash_password(password) == <<"sha256", password>>

verify_password(stored_hash, password) == stored_hash = hash_password(password)

\* ------------------------------------------------------------------- paths
USERS_FILE == <<"data", "users.json">>
data_file_name(username) == <<"user_data.csv", username>>
categories_file_name(username) == <<"user_categories.json", username>>
balance_file_name(username) == <<"user_balance.json", username>>
tmp(filepath) == <<filepath[1], filepath[2], ".tmp">>

UserPaths(username) ==
    {data_file_name(username), categories_file_name(username), balance_file_name(username)}
TargetPaths == {USERS_FILE} \cup UNION {UserPaths(u) : u \in Usernames}
Paths == TargetPaths \cup {tmp(p) : p \in TargetPaths}

\* ----------------------------------------------------------- file contents
Absent == [kind |-> "absent"]
Garbled == [kind |-> "garbled"]          \* a truncated or partly written file
File(v) == [kind |-> "ok", v |-> v]
exists(fs, filepath) == fs[filepath].kind # "absent"

EmptyDict == [x \in {} |-> x]
EmptyFrame == << >>
default_categories ==
    << [name |-> "Food", keywords |-> <<"grocery", "restaurant", "lunch">>],
       [name |-> "Transport", keywords |-> <<"uber", "taxi", "gas">>],
       [name |-> "Entertainment", keywords |-> <<"movie", "game", "concert">>],
       [name |-> "Bills", keywords |-> <<"electric", "water", "internet">>] >>
OtherOnly == << [name |-> "Other", keywords |-> << >>] >>
Balance(n) == [balance |-> n]

\* A journal in memory holds a calendar date (date_input's value, "today")
\* and, for a text cell that was read back empty or as NA, the missing
\* value NaN; the file holds the date as text and a missing value as the
\* empty cell.
NaN == "float('nan')"
astype_str(date) == IF date = "today" THEN "2024-01-05" ELSE date
to_datetime_date(cell) == IF cell = "2024-01-05" THEN "today" ELSE cell
write_cell(value) == IF value = NaN THEN "" ELSE value
parse_cell(cell) == IF cell \in {"", "NA", "N/A", "null", "NaN"} THEN NaN ELSE cell

\* Lines 246-250 and 213-221: DataFrame.to_csv after Date.astype(str), and
\* pd.read_csv followed by to_datetime(...).dt.date: the header row and one
\* row per entry.
to_csv(df) ==
    [header |-> Columns,
     rows |-> [i \in DOMAIN df |->
                 [df[i] EXCEPT !.Date = astype_str(@),
                               !.Description = write_cell(@),
                               !.Category = write_cell(@)]]]
read_csv(text) ==
    [i \in DOMAIN text.rows |->
        [text.rows[i] EXCEPT !.Date = to_datetime_date(@),
                             !.Description = parse_cell(@),
                             !.Category = parse_cell(@)]]

\* ------------------------------------------------------------------ faults
\* The I/O fault of one script run.  "early": the write fails before the
\* target is touched (open or dump of the temporary file raises).  "late":
\* it fails after the target was touched (os.rename raises after os.remove;
\* a direct open(path, 'w') raises after truncating).
NoFault == [path |-> <<"none", "none">>, how |-> "none"]
FaultsOn(paths) == {[path |-> p, how |-> h] : p \in paths, h \in {"early", "late"}}
Hits(flt, filepath, how) == flt.path = filepath /\ flt.how = how

\* --------------------------------------------------------------- the state
VARIABLES
    fs,                 \* the data directory: path -> content
    session_state,      \* st.session_state: auth_stage, current_user, expenses_df
    data_cache,         \* st.cache_data of load_user_data: username -> frame
    categories_cache,   \* st.cache_data of load_user_categories
    ui,                 \* what the last run showed and logged
    faults,             \* history: the runs that met an I/O fault
    writer,             \* the temp-then-rename sequence in progress, if any
    runs                \* the script runs of concurrent sessions, if any

vars == <<fs, session_state, data_cache, categories_cache, ui, faults, writer, runs>>

\* No write in progress.
Idle == [pc |-> "idle", filepath |-> <<"none", "none">>, data |-> EmptyDict, before |-> Absent]

\* The sessions that run the script at the same time, and no run in
\* progress in any of them.
Sessions == {1, 2}
NoRuns == [s \in Sessions |-> [pc |-> "idle", new_user |-> None, users |-> EmptyDict, msg |-> ""]]

\* The world an operator of the program reads and changes.
World == [fs |-> fs, log |-> {}, session_state |-> session_state,
          data_cache |-> data_cache, categories_cache |-> categories_cache]
Ret(w, r) == [w |-> w, r |-> r]
WithFs(w, fs2) == [w EXCEPT !.fs = fs2]
Logged(w, filepath) == [w EXCEPT !.log = @ \cup {filepath}]

\* Sequencing: the value of a statement, computed once, handed to the
\* statements after it.
Bind(v, Rest(_)) == CHOOSE r \in {Rest(x) : x \in {v}} : TRUE

\* ----------------------------------------------------------- file handling
\* The three steps of the temp-then-rename sequence (lines 84-89).
WriteTemp(files, filepath, data) == [files EXCEPT ![tmp(filepath)] = File(data)]
Remove(files, filepath) == [files EXCEPT ![filepath] = Absent]
Rename(files, from, to) == [files EXCEPT ![to] = files[from], ![from] = Absent]

\* open(path, 'w') and a dump into it, with no temporary file.
DirectWrite(w, filepath, data, flt) ==
    IF Hits(flt, filepath, "early") THEN Ret(Logged(w, filepath), FALSE)
    ELSE IF Hits(flt, filepath, "late")
         THEN Ret(Logged(WithFs(w, [w.fs EXCEPT ![filepath] = Garbled]), filepath), FALSE)
         ELSE Ret(WithFs(w, [w.fs EXCEPT ![filepath] = File(data)]), TRUE)

ensure_directory_exists(w, flt) ==
    IF ~exists(w.fs, USERS_FILE)
    THEN DirectWrite(w, USERS_FILE, EmptyDict, flt).w
    ELSE w

\* open(filepath, 'r') and json.load: the value parsed, or the exception
\* raised.
Raised(exc) == [ok |-> FALSE, exc |-> exc]
Returned(v) == [ok |-> TRUE, v |-> v]
json_load(files, filepath) ==
    IF files[filepath].kind = "absent" THEN Raised("FileNotFoundError")
    ELSE IF files[filepath].kind = "garbled" THEN Raised("JSONDecodeError")
    ELSE Returned(files[filepath].v)

\* The read with no except branch: the exception reaches the caller.
safe_json_read_uncaught(w, filepath, default) ==
    Bind(json_load(w.fs, filepath), LAMBDA j : IF j.ok THEN j.v ELSE j)

\* Lines 71-80: both exceptions are caught and the default returned.
safe_json_read(w, filepath, default) ==
    Bind(json_load(w.fs, filepath), LAMBDA j : IF j.ok THEN j.v ELSE default)

\* Lines 82-96.  Remove of a target that does not exist changes nothing, as
\* the os.path.exists test of line 87 has it; the except branch removes the
\* temporary file.
AtomicWrite(w, filepath, data, flt) ==
    IF Hits(flt, filepath, "early") THEN Ret(Logged(w, filepath), FALSE)
    ELSE IF Hits(flt, filepath, "late")
         THEN Ret(Logged(WithFs(w, Remove(Remove(WriteTemp(w.fs, filepath, data), filepath),
                                          tmp(filepath))), filepath), FALSE)
         ELSE Ret(WithFs(w, Rename(Remove(WriteTemp(w.fs, filepath, data), filepath),
                                   tmp(filepath), filepath)), TRUE)

safe_json_write(w, filepath, data, flt) == AtomicWrite(w, filepath, data, flt)

\* --------------------------------------------------------- user management
HasBalanceFile(user_data) == "balance_file" \in DOMAIN user_data

\* Lines 104-109: give every account a balance-file reference, and create
\* the file with balance 0 when it does not exist.
Healed(users) ==
    [n \in DOMAIN users |->
        IF HasBalanceFile(users[n]) THEN users[n]
        ELSE [k \in DOMAIN users[n] \cup {"balance_file"} |->
                 IF k = "balance_file" THEN balance_file_name(n) ELSE users[n][k]]]

\* The heal with no os.path.exists test: the balance file is written anew.
HealFilesAnew(w, users, flt) ==
    Bind({balance_file_name(n) : n \in {m \in DOMAIN users : ~HasBalanceFile(users[m])}},
         LAMBDA need :
            IF need = {} THEN w
            ELSE [w EXCEPT !.fs = [p \in DOMAIN @ |->
                                      IF p \in need /\ flt.path # p
                                      THEN File(Balance(0)) ELSE @[p]],
                           !.log = @ \cup {p \in need : flt.path = p}])

HealFiles(w, users, flt) ==
    Bind({balance_file_name(n) :
             n \in {m \in DOMAIN users : ~HasBalanceFile(users[m])
                                         /\ ~exists(w.fs, balance_file_name(m))}},
         LAMBDA need :
            IF need = {} THEN w
            ELSE [w EXCEPT !.fs = [p \in DOMAIN @ |->
                                      IF p \in need /\ flt.path # p
                                      THEN File(Balance(0)) ELSE @[p]],
                           !.log = @ \cup {p \in need : flt.path = p}])

load_users(w, flt) ==
    Bind(ensure_directory_exists(w, flt), LAMBDA w1 :
    Bind(safe_json_read(w1, USERS_FILE, EmptyDict), LAMBDA users :
    Bind(HealFiles(w1, users, flt), LAMBDA w2 :
    Bind(Healed(users), LAMBDA healed :
         Ret(safe_json_write(w2, USERS_FILE, healed, flt).w, healed)))))

NewUserData(username, password) ==
    [password_hash |-> hash_password(password),
     data_file |-> data_file_name(username),
     categories_file |-> categories_file_name(username),
     balance_file |-> balance_file_name(username)]

\* Lines 124-145: the three files of the new account.  Only the to_csv of
\* the journal can raise into the except branch; the results of the two
\* safe_json_write calls are dropped.
create_files(w, user_data, flt) ==
    Bind(DirectWrite(w, user_data.data_file, to_csv(EmptyFrame), flt), LAMBDA d :
         IF ~d.r THEN d
         ELSE
    Bind(safe_json_write(d.w, user_data.categories_file, default_categories, flt).w, LAMBDA c :
         Ret(safe_json_write(c, user_data.balance_file, Balance(0), flt).w, TRUE)))

\* The registry write that reads the registry again and adds the account
\* to what it finds.
store_users_merged(w, users, username, user_data, flt) ==
    safe_json_write(w, USERS_FILE,
                    (username :> user_data) @@ safe_json_read(w, USERS_FILE, EmptyDict), flt).w

\* Lines 148-149: the account is added to the registry as it was loaded and
\* the whole registry is written; the result of the write is dropped.
store_users(w, users, username, user_data, flt) ==
    safe_json_write(w, USERS_FILE, (username :> user_data) @@ users, flt).w

\* Lines 114-154.
save_user(w, username, password, flt) ==
    Bind(ensure_directory_exists(w, flt), LAMBDA w1 :
    Bind(load_users(w1, flt), LAMBDA l :
    Bind(NewUserData(username, password), LAMBDA user_data :
    Bind(create_files(l.w, user_data, flt), LAMBDA c :
         IF ~c.r THEN Ret(c.w, FALSE)
         ELSE Ret(store_users(c.w, l.r, username, user_data, flt), TRUE)))))

\* -------------------------------------------------------- balance functions
\* JSON documents that parse but are not what the program writes: an array,
\* a mapping with no "balance" key, and {"balance": "abc"} (its field is
\* named apart so that a balance field always holds a number).
AnArray == [array |-> << >>]
NoBalanceKey == [other |-> 0]
TextBalance == [balance_text |-> "abc"]

\* Line 168, float(json.load(f).get("balance", 0.0)): a document that does
\* not parse, one with no .get, and a balance float() rejects, all raise.
balance_of(j) ==
    IF ~j.ok THEN j
    ELSE IF "array" \in DOMAIN j.v THEN Raised("AttributeError")
    ELSE IF "balance_text" \in DOMAIN j.v THEN Raised("ValueError")
    ELSE IF "balance" \notin DOMAIN j.v THEN Returned(0)
    ELSE Returned(j.v.balance)

\* Lines 157-172.  A balance file that cannot be parsed raises into the
\* except branch, which logs and returns 0.0.
get_user_balance(w, username, flt) ==
    Bind(load_users(w, flt), LAMBDA l :
         IF username \notin DOMAIN l.r THEN Ret(l.w, 0)
         ELSE IF ~exists(l.w.fs, l.r[username].balance_file) THEN Ret(l.w, 0)
         ELSE Bind(balance_of(json_load(l.w.fs, l.r[username].balance_file)), LAMBDA b :
                   IF b.ok THEN Ret(l.w, b.v)
                   ELSE Ret(Logged(l.w, l.r[username].balance_file), 0)))

\* Lines 174-200: the temp-then-rename sequence, inlined.
update_user_balance(w, username, amount, flt) ==
    Bind(load_users(w, flt), LAMBDA l :
         IF username \notin DOMAIN l.r THEN Ret(l.w, FALSE)
         ELSE Bind(get_user_balance(l.w, username, flt), LAMBDA g :
                   AtomicWrite(g.w, l.r[username].balance_file,
                               Balance(g.r + amount), flt)))

\* ----------------------------------------------------------- data functions
\* Lines 204-225, without the cache.
load_user_data_body(w, username, flt) ==
    Bind(load_users(w, flt), LAMBDA l :
         IF username \notin DOMAIN l.r THEN Ret(l.w, EmptyFrame)
         ELSE IF l.w.fs[l.r[username].data_file].kind = "ok"
              THEN Ret(l.w, read_csv(l.w.fs[l.r[username].data_file].v))
              ELSE Ret(Logged(l.w, l.r[username].data_file), EmptyFrame))

\* @st.cache_data: a call with a cached argument returns the cached value
\* and does not run the body.
load_user_data(w, username, flt) ==
    IF username \in DOMAIN w.data_cache THEN Ret(w, w.data_cache[username])
    ELSE Bind(load_user_data_body(w, username, flt), LAMBDA b :
              Ret([b.w EXCEPT !.data_cache = (username :> b.r) @@ @], b.r))

\* Lines 228-235, without the cache.
load_user_categories_body(w, username, flt) ==
    Bind(load_users(w, flt), LAMBDA l :
         IF username \notin DOMAIN l.r THEN Ret(l.w, OtherOnly)
         ELSE Ret(l.w, safe_json_read(l.w, l.r[username].categories_file, OtherOnly)))

load_user_categories(w, username, flt) ==
    IF username \in DOMAIN w.categories_cache THEN Ret(w, w.categories_cache[username])
    ELSE Bind(load_user_categories_body(w, username, flt), LAMBDA b :
              Ret([b.w EXCEPT !.categories_cache = (username :> b.r) @@ @], b.r))

\* st.cache_data.clear()
cache_clear(w) == [w EXCEPT !.data_cache = EmptyDict, !.categories_cache = EmptyDict]

\* Lines 237-261: the temp-then-rename sequence, inlined, on the CSV text.
save_user_data(w, username, df, flt) ==
    Bind(load_users(w, flt), LAMBDA l :
         IF username \notin DOMAIN l.r THEN Ret(l.w, FALSE)
         ELSE AtomicWrite(l.w, l.r[username].data_file, to_csv(df), flt))

save_user_categories(w, username, categories, flt) ==
    Bind(load_users(w, flt), LAMBDA l :
         IF username \notin DOMAIN l.r THEN Ret(l.w, FALSE)
         ELSE safe_json_write(l.w, l.r[username].categories_file, categories, flt))

\* ------------------------------------------------------------ finance_app
Names(categories) == {categories[i].name : i \in DOMAIN categories}
SetKey(state, key, value) == (key :> value) @@ state
Entry(description, category, amount) ==
    [Date |-> "today", Description |-> description, Category |-> category, Amount |-> amount]

\* Lines 275-276: the session's frame is loaded only when the session holds
\* none.
SessionFrame(w, username, flt) ==
    IF "expenses_df" \in DOMAIN w.session_state THEN w
    ELSE Bind(load_user_data(w, username, flt), LAMBDA l :
              [l.w EXCEPT !.session_state = SetKey(@, "expenses_df", l.r)])

\* Lines 275-280: then the category rules and the balance are read.
Prefix(w, username, flt) ==
    Bind(SessionFrame(w, username, flt), LAMBDA d :
    Bind(load_user_categories(d, username, flt), LAMBDA c :
    Bind(get_user_balance(c.w, username, flt), LAMBDA b :
         [w |-> b.w, expenses_df |-> d.session_state.expenses_df,
          categories |-> c.r, current_balance |-> b.r])))

\* Line 309: the sidebar reads the balance again.
Sidebar(w, username, flt) == get_user_balance(w, username, flt)

\* A run of finance_app in which no button is pressed.
Render(w, username, flt) ==
    Bind(Prefix(w, username, flt).w, LAMBDA p : Sidebar(p, username, flt).w)

Outcome(w, msg, rerun) == [w |-> w, msg |-> msg, rerun |-> rerun]

\* Lines 292-303.
SetBalanceClick(w, username, starting_balance, flt) ==
    IF starting_balance > 0
    THEN Bind(load_users(w, flt), LAMBDA l :
           IF username \notin DOMAIN l.r
           THEN Outcome(l.w, "User not found. Please log in again or create an account.",
                        FALSE)
           ELSE Bind(update_user_balance(l.w, username, starting_balance, flt), LAMBDA u :
                  IF u.r THEN Outcome(u.w, "Balance set successfully!", TRUE)
                  ELSE Outcome(u.w, "Failed to save balance", FALSE)))
    ELSE Outcome(w, "Please enter a positive amount", FALSE)

\* Lines 323 and 343.
category_options(categories) ==
    {n \in Names(categories) : n # "Other"} \cup {AddNew}
final_category_of(category, new_category_name) ==
    IF category = AddNew /\ new_category_name # "" THEN new_category_name ELSE category

\* Lines 348-350.  The result of save_user_categories is dropped.
AddCategory(w, username, categories, final_category, flt) ==
    IF final_category \notin Names(categories)
    THEN save_user_categories(w, username,
             Append(categories, [name |-> final_category, keywords |-> << >>]), flt).w
    ELSE w

\* The append that persists the new row alone, not the full sequence.
CommitExpenseRowOnly(w, username, expenses_df, categories, description, amount, final_category, flt) ==
    Bind(AddCategory(w, username, categories, final_category, flt), LAMBDA c :
    Bind(Append(expenses_df, Entry(description, final_category, amount)), LAMBDA df :
    Bind(save_user_data([c EXCEPT !.session_state = SetKey(@, "expenses_df", df)],
                        username, <<Entry(description, final_category, amount)>>, flt), LAMBDA j :
         IF ~j.r THEN Outcome(j.w, "Failed to save expense", FALSE)
         ELSE Bind(update_user_balance(j.w, username, 0 - amount, flt), LAMBDA b :
                IF b.r
                THEN Outcome(cache_clear(b.w), "Expense added successfully!", TRUE)
                ELSE Outcome(b.w, "Failed to save expense", FALSE)))))

\* Lines 351-359.  The frame of the session takes the new row before
\* anything is saved.
CommitExpense(w, username, expenses_df, categories, description, amount, final_category, flt) ==
    Bind(AddCategory(w, username, categories, final_category, flt), LAMBDA c :
    Bind(Append(expenses_df, Entry(description, final_category, amount)), LAMBDA df :
    Bind(save_user_data([c EXCEPT !.session_state = SetKey(@, "expenses_df", df)],
                        username, df, flt), LAMBDA j :
         IF ~j.r THEN Outcome(j.w, "Failed to save expense", FALSE)
         ELSE Bind(update_user_balance(j.w, username, 0 - amount, flt), LAMBDA b :
                IF b.r
                THEN Outcome(cache_clear(b.w), "Expense added successfully!", TRUE)
                ELSE Outcome(b.w, "Failed to save expense", FALSE)))))

\* The handler with no test of the amount against the current balance.
AddExpenseClickUnchecked(w, username, expenses_df, categories, current_balance, description, amount, category, new_category_name, flt) ==
    IF description = "" THEN Outcome(w, "Please enter a description", FALSE)
    ELSE IF amount <= 0 THEN Outcome(w, "Amount must be positive", FALSE)
    ELSE IF final_category_of(category, new_category_name) \in {AddNew, ""}
         THEN Outcome(w, "Please enter a valid category name", FALSE)
         ELSE CommitExpense(w, username, expenses_df, categories, description, amount,
                            final_category_of(category, new_category_name), flt)

\* Lines 335-359.
AddExpenseClick(w, username, expenses_df, categories, current_balance, description, amount, category, new_category_name, flt) ==
    IF description = "" THEN Outcome(w, "Please enter a description", FALSE)
    ELSE IF amount <= 0 THEN Outcome(w, "Amount must be positive", FALSE)
    ELSE IF amount > current_balance
         THEN Outcome(w, "Expense exceeds your current balance", FALSE)
    ELSE IF final_category_of(category, new_category_name) \in {AddNew, ""}
         THEN Outcome(w, "Please enter a valid category name", FALSE)
         ELSE CommitExpense(w, username, expenses_df, categories, description, amount,
                            final_category_of(category, new_category_name), flt)

\* Lines 371-377.
UpdateBalanceClick(w, username, current_balance, new_balance, flt) ==
    Bind(update_user_balance(w, username, new_balance - current_balance, flt), LAMBDA u :
         IF u.r THEN Outcome(u.w, "Balance updated successfully!", TRUE)
         ELSE Outcome(u.w, "Failed to update balance", FALSE))

\* Lines 543-559.  The journal is overwritten in place; the result of the
\* balance write is dropped.
DeleteDataClick(w, username, flt) ==
    Bind(load_users(w, flt), LAMBDA l :
         IF username \notin DOMAIN l.r THEN Outcome(l.w, "", FALSE)
         ELSE
    Bind(DirectWrite(l.w, l.r[username].data_file, to_csv(EmptyFrame), flt), LAMBDA d :
         IF ~d.r THEN Outcome(d.w, "Error deleting data", FALSE)
         ELSE
    Bind(safe_json_write(d.w, l.r[username].balance_file, Balance(0), flt).w, LAMBDA b :
         Outcome(cache_clear([b EXCEPT !.session_state =
                                  SetKey(@, "expenses_df", EmptyFrame)]),
                 "All financial data has been permanently deleted!", TRUE))))

\* Lines 577-579: os.unlink of each file that exists, in order; a file the
\* fault is on raises and leaves the files after it in place.
Unlinked(w, files, flt) ==
    Bind({i \in DOMAIN files : flt.path = files[i] /\ exists(w.fs, files[i])}, LAMBDA bad :
    Bind({files[i] : i \in {k \in DOMAIN files : \A j \in bad : k < j}}, LAMBDA gone :
         Ret([w EXCEPT !.fs = [p \in DOMAIN @ |-> IF p \in gone THEN Absent ELSE @[p]],
                       !.log = @ \cup {files[i] : i \in bad}],
             bad = {})))

\* The closure that leaves the session as it is.
CloseAccountClickKeepSession(w, username, flt) ==
    Bind(load_users(w, flt), LAMBDA l :
         IF username \notin DOMAIN l.r THEN Outcome(l.w, "", FALSE)
         ELSE
    Bind(Unlinked(l.w, <<l.r[username].data_file, l.r[username].categories_file,
                         l.r[username].balance_file>>, flt), LAMBDA x :
         IF ~x.r THEN Outcome(x.w, "Error deleting account", FALSE)
         ELSE
    Bind(load_users(x.w, flt), LAMBDA l2 :
         IF username \notin DOMAIN l2.r THEN Outcome(l2.w, "Error deleting account", FALSE)
         ELSE
    Bind(safe_json_write(l2.w, USERS_FILE,
                         [n \in DOMAIN l2.r \ {username} |-> l2.r[n]], flt).w, LAMBDA r :
         Outcome(r, "Account permanently deleted! Redirecting...", TRUE)))))

\* Lines 566-590.  The result of the registry write is dropped.
CloseAccountClick(w, username, flt) ==
    Bind(load_users(w, flt), LAMBDA l :
         IF username \notin DOMAIN l.r THEN Outcome(l.w, "", FALSE)
         ELSE
    Bind(Unlinked(l.w, <<l.r[username].data_file, l.r[username].categories_file,
                         l.r[username].balance_file>>, flt), LAMBDA x :
         IF ~x.r THEN Outcome(x.w, "Error deleting account", FALSE)
         ELSE
    Bind(load_users(x.w, flt), LAMBDA l2 :
         IF username \notin DOMAIN l2.r THEN Outcome(l2.w, "Error deleting account", FALSE)
         ELSE
    Bind(safe_json_write(l2.w, USERS_FILE,
                         [n \in DOMAIN l2.r \ {username} |-> l2.r[n]], flt).w, LAMBDA r :
         Outcome([r EXCEPT !.session_state = [auth_stage |-> "master"]],
                 "Account permanently deleted! Redirecting...", TRUE)))))

\* ----------------------------------------------------------------- actions
\* st.session_state.clear() leaves a session with no current_user key.
CurrentUser ==
    IF "current_user" \in DOMAIN session_state THEN session_state.current_user ELSE None
InApp == session_state.auth_stage = "app" /\ CurrentUser # None

\* The faults a run can meet: none, or one on a file the run writes.  At
\* most MaxFaults runs of a behaviour meet one.
FaultsOf(F, paths) ==
    {f \in F : f = NoFault \/ (faults < MaxFaults /\ f.path \in paths)}
Counted(flt) == faults' = IF flt = NoFault THEN faults ELSE faults + 1

Commit(w, msg, username) ==
    /\ fs' = w.fs
    /\ session_state' = w.session_state
    /\ data_cache' = w.data_cache
    /\ categories_cache' = w.categories_cache
    /\ ui' = [msg |-> msg, user |-> username, log |-> w.log]
    /\ UNCHANGED <<writer, runs>>

\* st.rerun(): the script runs again from the top.
Rerun(o, username, flt) == IF o.rerun THEN Render(o.w, username, flt) ELSE o.w

\* Lines 610-612: the state of a new session, on an empty data directory.
Init ==
    /\ fs = [p \in Paths |-> Absent]
    /\ session_state = [auth_stage |-> "master", current_user |-> None]
    /\ data_cache = EmptyDict
    /\ categories_cache = EmptyDict
    /\ ui = [msg |-> "", user |-> None, log |-> {}]
    /\ faults = 0
    /\ writer = Idle
    /\ runs = NoRuns

\* Lines 615-623.
Continue(master_code) ==
    /\ session_state.auth_stage = "master"
    /\ IF master_code = MASTER_PASSWORD
       THEN /\ session_state' = [session_state EXCEPT !.auth_stage = "user_auth"]
            /\ ui' = [msg |-> "User Authentication", user |-> None, log |-> {}]
       ELSE /\ session_state' = session_state
            /\ ui' = [msg |-> "Incorrect master code", user |-> None, log |-> {}]
    /\ UNCHANGED <<fs, data_cache, categories_cache, faults, writer, runs>>

\* Lines 634-641, and the first run of finance_app that the rerun starts.
Login(login_user, login_pass, flt) ==
    /\ session_state.auth_stage = "user_auth"
    /\ \E l \in {load_users(World, flt)} :
          IF login_user \in DOMAIN l.r
             /\ verify_password(l.r[login_user].password_hash, login_pass)
          THEN \E w \in {Render([l.w EXCEPT !.session_state =
                                    SetKey(SetKey(@, "auth_stage", "app"),
                                           "current_user", login_user)],
                                login_user, flt)} :
                  Commit(w, "Welcome", login_user)
          ELSE Commit(l.w, "Invalid username or password", login_user)
    /\ Counted(flt)

\* Lines 648-659.
CreateAccount(new_user, new_pass, confirm_pass, flt) ==
    /\ session_state.auth_stage = "user_auth"
    /\ Counted(flt)
    /\ IF new_user = "" \/ new_pass = ""
       THEN Commit(World, "Username and password are required", new_user)
       ELSE IF new_pass # confirm_pass
       THEN Commit(World, "Passwords don't match", new_user)
       ELSE \E l \in {load_users(World, flt)} :
               IF new_user \in DOMAIN l.r
               THEN Commit(l.w, "Username already exists", new_user)
               ELSE \E s \in {save_user(l.w, new_user, new_pass, flt)} :
                       IF s.r
                       THEN Commit(s.w, "Account created successfully! Please login",
                                   new_user)
                       ELSE Commit(s.w, "Failed to create account", new_user)

\* Lines 283-303: the expander is there only while the balance reads 0.
SetBalance(starting_balance, flt) ==
    /\ InApp
    /\ Counted(flt)
    /\ \E username \in {CurrentUser} :
       \E p \in {Prefix(World, username, flt)} :
          /\ p.current_balance = 0
          /\ \E o \in {SetBalanceClick(p.w, username, starting_balance, flt)} :
             \E w \in {IF o.rerun THEN Render(o.w, username, flt)
                       ELSE Sidebar(o.w, username, flt).w} :
                Commit(w, o.msg, username)

\* Lines 312-316.
Logout(flt) ==
    /\ InApp
    /\ Counted(flt)
    /\ \E username \in {CurrentUser} :
       \E w \in {Render(World, username, flt)} :
          Commit([w EXCEPT !.session_state =
                      SetKey(SetKey(@, "auth_stage", "master"), "current_user", None)],
                 "Finance Tracker - Master Access", username)

\* Lines 318-359.
AddExpense(in, flt) ==
    /\ InApp
    /\ Counted(flt)
    /\ \E username \in {CurrentUser} :
       \E p \in {Prefix(World, username, flt)} :
          /\ in.category \in category_options(p.categories)
          /\ Len(p.expenses_df) < MaxJournal
          /\ \E b \in {Sidebar(p.w, username, flt)} :
             \E o \in {AddExpenseClick(b.w, username, p.expenses_df, p.categories, b.r,
                                       in.description, in.amount, in.category,
                                       in.new_category_name, flt)} :
             \E w \in {Rerun(o, username, flt)} :
                Commit(w, o.msg, username)

\* Lines 362-377.
UpdateBalance(new_balance, flt) ==
    /\ InApp
    /\ Counted(flt)
    /\ \E username \in {CurrentUser} :
       \E p \in {Prefix(World, username, flt)} :
       \E b \in {Sidebar(p.w, username, flt)} :
       \E o \in {UpdateBalanceClick(b.w, username, b.r, new_balance, flt)} :
       \E w \in {Rerun(o, username, flt)} :
          Commit(w, o.msg, username)

\* Lines 539-559.
DeleteData(flt) ==
    /\ InApp
    /\ Counted(flt)
    /\ \E username \in {CurrentUser} :
       \E p \in {Render(World, username, flt)} :
       \E o \in {DeleteDataClick(p, username, flt)} :
       \E w \in {Rerun(o, username, flt)} :
          Commit(w, o.msg, username)

\* Lines 562-590.  After st.session_state.clear() the rerun shows the master
\* page, which touches no file.
CloseAccount(flt) ==
    /\ InApp
    /\ Counted(flt)
    /\ \E username \in {CurrentUser} :
       \E p \in {Render(World, username, flt)} :
       \E o \in {CloseAccountClick(p, username, flt)} :
          Commit(o.w, o.msg, username)

\* ttl=3600: an hour passes and the cached values expire.
CacheExpire ==
    /\ DOMAIN data_cache \cup DOMAIN categories_cache # {}
    /\ data_cache' = EmptyDict
    /\ categories_cache' = EmptyDict
    /\ ui' = [msg |-> "", user |-> None, log |-> {}]
    /\ UNCHANGED <<fs, session_state, faults, writer, runs>>

\* What is typed into the sign-up form: a complete form for every username,
\* and one form for each way of failing validation.
SignUpInputs(U) ==
    {<<u, "pw1", "pw1">> : u \in U}
    \cup {<<"", "pw1", "pw1">>, <<"alice", "", "pw1">>, <<"alice", "pw1", "pw2">>}

\* What is typed into the expense form, likewise.
ExpenseInput(description, amount, category, new_category_name) ==
    [description |-> description, amount |-> amount, category |-> category,
     new_category_name |-> new_category_name]
ExpenseInputs(C, A) ==
    {ExpenseInput("uber ride", a, "Transport", "") : a \in A \cup {0}}
    \cup {ExpenseInput("uber ride", a, AddNew, c) : a \in A, c \in C}
    \cup {ExpenseInput("uber ride", a, c, "") : a \in A, c \in C}
    \cup {ExpenseInput("", 1, "Transport", ""), ExpenseInput("uber ride", 1, AddNew, "")}

\* One run of the script: U the usernames and P the passwords typed, C the
\* new category names, A the expense amounts and B the balances typed, F the
\* faults the run can meet.
Step(U, P, C, A, B, F) ==
    \/ \E master_code \in {MASTER_PASSWORD, "guess"} : Continue(master_code)
    \/ \E u \in U, pw \in P, flt \in FaultsOf(F, {USERS_FILE}) : Login(u, pw, flt)
    \/ \E in \in SignUpInputs(U) :
          \E flt \in FaultsOf(F, {USERS_FILE} \cup UserPaths(in[1])) :
             CreateAccount(in[1], in[2], in[3], flt)
    \/ \E n \in B,
          flt \in FaultsOf(F, {USERS_FILE, balance_file_name(CurrentUser)}) :
          SetBalance(n, flt)
    \/ \E flt \in FaultsOf(F, {USERS_FILE}) : Logout(flt)
    \/ \E in \in ExpenseInputs(C, A),
          flt \in FaultsOf(F, {USERS_FILE} \cup UserPaths(CurrentUser)) :
          AddExpense(in, flt)
    \/ \E n \in B,
          flt \in FaultsOf(F, {USERS_FILE, balance_file_name(CurrentUser)}) :
          UpdateBalance(n, flt)
    \/ \E flt \in FaultsOf(F, {USERS_FILE, data_file_name(CurrentUser),
                               balance_file_name(CurrentUser)}) : DeleteData(flt)
    \/ \E flt \in FaultsOf(F, {USERS_FILE} \cup UserPaths(CurrentUser)) : CloseAccount(flt)
    \/ CacheExpire

\* One account, under I/O faults.
Faults == {NoFault} \cup FaultsOn(TargetPaths)
Next == Step({"alice"}, Passwords, {"Gifts"}, {1}, {0, 1, 2}, Faults)
Spec == Init /\ [][Next]_vars

\* Two accounts in one session, when no write fails.
NextSession == Step(Usernames, {"pw1"}, {}, {1, 2}, {0, 1, 2}, {NoFault})
SpecSession == Init /\ [][NextSession]_vars

\* ------------------------------------------- one write, statement by statement
\* The temp-then-rename sequence of safe_json_write (lines 84-89), inlined in
\* update_user_balance (lines 187-193) and save_user_data (lines 250-254), one
\* statement per step.  writer.pc names the statement about to run;
\* writer.before is the target's content when the write began.
InFlight == {"open", "dump", "remove", "rename"}

WriteInputs ==
    {<<USERS_FILE, EmptyDict>>, <<USERS_FILE, ("alice" :> NewUserData("alice", "pw1"))>>}
    \cup {<<balance_file_name("alice"), Balance(n)>> : n \in {0, 1}}
    \cup {<<data_file_name("alice"), to_csv(df)>> :
             df \in {EmptyFrame, <<Entry("uber ride", "Transport", 1)>>}}

Quiet == UNCHANGED <<session_state, data_cache, categories_cache, ui, faults, runs>>

Begin(filepath, data) ==
    /\ writer.pc \notin InFlight
    /\ writer' = [pc |-> "open", filepath |-> filepath, data |-> data,
                  before |-> fs[filepath]]
    /\ UNCHANGED fs
    /\ Quiet

\* open(temp_file, 'w'): the temporary file exists, empty.
OpenTemp ==
    /\ writer.pc = "open"
    /\ fs' = [fs EXCEPT ![tmp(writer.filepath)] = Garbled]
    /\ writer' = [writer EXCEPT !.pc = "dump"]
    /\ Quiet

\* json.dump / to_csv into the temporary file, and its close.
DumpTemp ==
    /\ writer.pc = "dump"
    /\ fs' = WriteTemp(fs, writer.filepath, writer.data)
    /\ writer' = [writer EXCEPT !.pc = "remove"]
    /\ Quiet

\* if os.path.exists(filepath): os.remove(filepath)
RemoveTarget ==
    /\ writer.pc = "remove"
    /\ fs' = IF exists(fs, writer.filepath) THEN Remove(fs, writer.filepath) ELSE fs
    /\ writer' = [writer EXCEPT !.pc = "rename"]
    /\ Quiet

\* os.rename(temp_file, filepath); return True
RenameTemp ==
    /\ writer.pc = "rename"
    /\ fs' = Rename(fs, tmp(writer.filepath), writer.filepath)
    /\ writer' = [writer EXCEPT !.pc = "done"]
    /\ Quiet

\* The statement about to run raises: the except branch removes the
\* temporary file if it exists and the write returns False.
Raise ==
    /\ writer.pc \in InFlight
    /\ fs' = IF exists(fs, tmp(writer.filepath)) THEN Remove(fs, tmp(writer.filepath)) ELSE fs
    /\ writer' = [writer EXCEPT !.pc = "failed"]
    /\ Quiet

\* The process is stopped before the statement about to run: nothing is
\* cleaned up.
Interrupt ==
    /\ writer.pc \in InFlight
    /\ writer' = [writer EXCEPT !.pc = "interrupted"]
    /\ UNCHANGED fs
    /\ Quiet

NextWrite ==
    \/ \E in \in WriteInputs : Begin(in[1], in[2])
    \/ OpenTemp
    \/ DumpTemp
    \/ RemoveTarget
    \/ RenameTemp
    \/ Raise
    \/ Interrupt
SpecWrite == Init /\ [][NextWrite]_vars

\* ------------------------------------------------------------------ claims
\* C1: a write that failed or was interrupted before its rename completed
\* has left the target with the content it held when the write began.
FailedWriteLeavesTarget ==
    writer.pc \in {"failed", "interrupted"} => fs[writer.filepath] = writer.before

\* C2: while a write replaces a complete value, a read of the target sees
\* the old value in full or the new value in full.
ReadSeesOldOrNew ==
    (writer.pc \in InFlight /\ writer.before.kind = "ok")
        => fs[writer.filepath] \in {writer.before, File(writer.data)}

\* What is on disk, read the way the program reads it.
Registry(files) == IF files[USERS_FILE].kind = "ok" THEN files[USERS_FILE].v ELSE EmptyDict
BalanceIn(files, username) ==
    IF files[balance_file_name(username)].kind = "ok"
    THEN files[balance_file_name(username)].v.balance ELSE 0
JournalIn(files, username) ==
    IF files[data_file_name(username)].kind = "ok"
    THEN read_csv(files[data_file_name(username)].v) ELSE EmptyFrame
RECURSIVE total_spent(_)
total_spent(df) == IF df = << >> THEN 0 ELSE Head(df).Amount + total_spent(Tail(df))

\* The starting balance the files stand for: the balance plus what the
\* journal says was spent.
Backing(files, username) == BalanceIn(files, username) + total_spent(JournalIn(files, username))

\* The runs that adjust a starting balance, wipe an account's data, or
\* create or close an account.
Adjusting ==
    {"Balance set successfully!", "Balance updated successfully!",
     "All financial data has been permanently deleted!",
     "Account created successfully! Please login",
     "Account permanently deleted! Redirecting..."}

\* C3: for each account the persisted balance is its starting balance minus
\* the amounts in its persisted journal; that is, a run that is not a balance
\* adjustment, a wipe, a creation or a closure leaves balance plus journal
\* amounts as it was.
BalanceMatchesJournal ==
    [][ui'.msg \notin Adjusting
         => \A u \in Usernames : Backing(fs', u) = Backing(fs, u)]_vars

\* C4: add-expense reports success only if none of its writes to the
\* account's files (journal, balance, a newly added category) failed.
AddExpenseSuccessMeansStored ==
    [][ui'.msg = "Expense added successfully!"
         => ui'.log \cap UserPaths(ui'.user) = {}]_vars

\* The messages of an input rejected by validation.
Rejections ==
    {"Please enter a description", "Amount must be positive",
     "Expense exceeds your current balance", "Please enter a valid category name",
     "Username and password are required", "Passwords don't match",
     "Username already exists"}

\* C5: a rejected expense entry or sign-up leaves every file as it was.
RejectionChangesNoFile ==
    [][ui'.msg \in Rejections => fs' = fs]_vars

\* C6: create for a username already in the registry fails and leaves that
\* account's registry entry, password hash included, as it was.
DuplicateCreateKeepsAccount ==
    [][ui'.msg = "Username already exists"
         => /\ ui'.user \in DOMAIN Registry(fs')
            /\ Registry(fs')[ui'.user] = Registry(fs)[ui'.user]]_vars

\* C7: create reports success only if the journal, the categories file, the
\* balance file and the registry entry were all persisted.
CreateSuccessMeansPersisted ==
    ui.msg = "Account created successfully! Please login"
        => /\ ui.user \in DOMAIN Registry(fs)
           /\ fs[data_file_name(ui.user)] = File(to_csv(EmptyFrame))
           /\ fs[categories_file_name(ui.user)] = File(default_categories)
           /\ fs[balance_file_name(ui.user)] = File(Balance(0))

\* C8: right after a successful create(u) the balance read for u is 0, the
\* journal loaded for u is empty, the category rules loaded for u are the
\* default set, and u is in the registry.
CreatedAccountIsFresh ==
    ui.msg = "Account created successfully! Please login"
        => /\ get_user_balance(World, ui.user, NoFault).r = 0
           /\ load_user_data(World, ui.user, NoFault).r = EmptyFrame
           /\ load_user_categories(World, ui.user, NoFault).r = default_categories
           /\ ui.user \in DOMAIN load_users(World, NoFault).r

\* C9: every account in the persisted registry has its journal, categories
\* and balance files on disk.
RegisteredAccountHasFiles ==
    \A u \in DOMAIN Registry(fs) : \A p \in UserPaths(u) : exists(fs, p)

\* C10: after delete(username) the three data files and the registry entry
\* are gone, so the balance reads 0 and a login as that username fails.
ClosedAccountIsGone ==
    ui.msg = "Account permanently deleted! Redirecting..."
        => /\ \A p \in UserPaths(ui.user) : ~exists(fs, p)
           /\ ui.user \notin DOMAIN Registry(fs)
           /\ get_user_balance(World, ui.user, NoFault).r = 0

\* C11: a login is accepted if and only if the username is in the registry
\* at the time of the call and the stored hash is the digest of the password
\* supplied; and a creation that reported success has stored the digest of
\* the password it was given, so that this password is the one accepted.
LoginAcceptsCreatedPassword ==
    [][\A u \in Usernames, pw \in Passwords, f \in Faults :
          /\ Login(u, pw, f)
                => (ui'.msg = "Welcome"
                      <=> /\ u \in DOMAIN Registry(fs)
                          /\ Registry(fs)[u].password_hash = hash_password(pw))
          /\ (CreateAccount(u, pw, pw, f)
                 /\ ui'.msg = "Account created successfully! Please login")
                => /\ u \in DOMAIN Registry(fs')
                   /\ Registry(fs')[u].password_hash = hash_password(pw)]_vars

\* ------------------------------------------- the store, one call at a time
\* The file store, the registry and the ledger called directly, on a data
\* directory found in any of the conditions below.  ui records the call and
\* what it returned.
MaxBalance == 3      \* largest balance a sequence of deltas builds

LegacyUserData(username, password) ==
    [password_hash |-> hash_password(password),
     data_file |-> data_file_name(username),
     categories_file |-> categories_file_name(username)]

RegistryInputs ==
    {Absent, Garbled, File(EmptyDict),
     File("alice" :> NewUserData("alice", "pw1")),
     File("alice" :> LegacyUserData("alice", "pw1")),
     File(("alice" :> LegacyUserData("alice", "pw1")) @@ ("bob" :> NewUserData("bob", "pw1")))}

BalanceInputs ==
    {Absent, Garbled, File(Balance(0)), File(Balance(2)),
     File(AnArray), File(NoBalanceKey), File(TextBalance)}

InitStore ==
    /\ \E registry \in RegistryInputs, balance \in BalanceInputs :
          fs = [p \in Paths |-> IF p = USERS_FILE THEN registry
                                ELSE IF p = balance_file_name("alice") THEN balance
                                ELSE Absent]
    /\ session_state = [auth_stage |-> "master", current_user |-> None]
    /\ data_cache = EmptyDict
    /\ categories_cache = EmptyDict
    /\ ui = [msg |-> "", user |-> None, log |-> {}]
    /\ faults = 0
    /\ writer = Idle
    /\ runs = NoRuns

Called(w, call, ret) ==
    /\ fs' = w.fs
    /\ ui' = [msg |-> call.msg, user |-> call.user, log |-> w.log,
              path |-> call.path, arg |-> call.arg, ret |-> ret]
    /\ UNCHANGED <<session_state, data_cache, categories_cache, writer, runs>>
Call(msg, user, path, arg) == [msg |-> msg, user |-> user, path |-> path, arg |-> arg]

\* safe_json_read(filepath, default)
StoreRead(filepath, default) ==
    /\ Called(World, Call("read", None, filepath, File(default)),
              File(safe_json_read(World, filepath, default)))
    /\ UNCHANGED faults

\* safe_json_write(filepath, data)
StoreWrite(filepath, data, flt) ==
    /\ Counted(flt)
    /\ \E r \in {safe_json_write(World, filepath, data, flt)} :
          Called(r.w, Call("write", None, filepath, File(data)), r.r)

\* load_users()
RegistryLoad(flt) ==
    /\ Counted(flt)
    /\ \E r \in {load_users(World, flt)} :
          Called(r.w, Call("load", None, USERS_FILE, Absent), r.r)

\* get_user_balance(username)
LedgerGet(username, flt) ==
    /\ Counted(flt)
    /\ \E r \in {get_user_balance(World, username, flt)} :
          Called(r.w, Call("get", username, balance_file_name(username), Absent), r.r)

\* update_user_balance(username, amount)
LedgerApplyDelta(username, amount, flt) ==
    /\ Counted(flt)
    /\ \E before \in {get_user_balance(World, username, NoFault).r} :
          /\ before + amount \in 0..MaxBalance
          /\ \E r \in {update_user_balance(World, username, amount, flt)} :
                Called(r.w, Call("applyDelta", username, balance_file_name(username),
                                 Balance(amount)), r.r)

StorePaths == {USERS_FILE, balance_file_name("alice")}
NextStore ==
    \/ \E filepath \in StorePaths, default \in {EmptyDict, Balance(0)} :
          StoreRead(filepath, default)
    \/ \E data \in {Balance(1), NoBalanceKey},
          flt \in FaultsOf(Faults, {balance_file_name("alice")}) :
          StoreWrite(balance_file_name("alice"), data, flt)
    \/ \E flt \in FaultsOf(Faults, StorePaths) : RegistryLoad(flt)
    \/ \E username \in Usernames, flt \in FaultsOf(Faults, {USERS_FILE}) :
          LedgerGet(username, flt)
    \/ \E username \in Usernames, amount \in {0 - 1, 1, 2},
          flt \in FaultsOf(Faults, StorePaths) :
          LedgerApplyDelta(username, amount, flt)
SpecStore == InitStore /\ [][NextStore]_vars

\* What ledger.get returns on the files given.
GetIn(files, username) == get_user_balance(WithFs(World, files), username, NoFault).r

\* A balance file that is missing or does not hold a number under "balance".
InvalidBalance(files, username) ==
    \/ files[balance_file_name(username)].kind # "ok"
    \/ "balance" \notin DOMAIN files[balance_file_name(username)].v

ApplyDeltaAdds ==
    [][(ui'.msg = "applyDelta" /\ ui'.ret = TRUE)
          => GetIn(fs', ui'.user) = GetIn(fs, ui'.user) + ui'.arg.balance]_vars

\* C19: every account in the registry that load returns, and in the registry
\* it rewrote, has a balance-file reference; a balance file is created, with
\* balance 0, only where none existed, and an existing balance file is left
\* as it was.
LoadHealsWithoutOverwrite ==
    [][ui'.msg = "load"
          => /\ \A u \in DOMAIN ui'.ret : HasBalanceFile(ui'.ret[u])
             /\ USERS_FILE \notin ui'.log
                   => /\ Registry(fs') = ui'.ret
                      /\ \A u \in DOMAIN Registry(fs') : HasBalanceFile(Registry(fs')[u])
             /\ \A u \in Usernames :
                   /\ exists(fs, balance_file_name(u))
                         => fs'[balance_file_name(u)] = fs[balance_file_name(u)]
                   /\ (~exists(fs, balance_file_name(u)) /\ exists(fs', balance_file_name(u)))
                         => /\ fs'[balance_file_name(u)] = File(Balance(0))
                            /\ u \in DOMAIN Registry(fs)
                            /\ ~HasBalanceFile(Registry(fs)[u])]_vars

LoadHealsWitness ==
    /\ ui.msg = "load"
    /\ {"alice", "bob"} \subseteq DOMAIN Registry(fs)
    /\ HasBalanceFile(Registry(fs)["alice"])
    /\ fs[balance_file_name("alice")] = File(Balance(2))

\* ------------------------------------------------- json.dump and json.load
\* A Python value: its type t, its text s, its number n, and the items of a
\* container (each a key and a value; the items of a list or tuple have no
\* key).  A JSON document has the same form, with the types of JSON.
Py(t, str, n, items) == [t |-> t, s |-> str, n |-> n, items |-> items]
PyNone == Py("none", "", 0, << >>)
PyStr(str) == Py("str", str, 0, << >>)
PyInt(n) == Py("int", "", n, << >>)
PyFloat(n) == Py("float", "", n, << >>)
Item(k, v) == [k |-> k, v |-> v]
PyDict(items) == Py("dict", "", 0, items)
PyList(values) == Py("list", "", 0, [i \in DOMAIN values |-> Item(PyNone, values[i])])
PyTuple(values) == Py("tuple", "", 0, [i \in DOMAIN values |-> Item(PyNone, values[i])])

\* The decimal text of the small numbers used as keys.
Digits(n) == IF n = 0 THEN "0" ELSE IF n = 1 THEN "1" ELSE "2"

\* json.dump: a dict becomes an object whose keys are strings (a number key
\* is written as its text), a list or a tuple becomes an array, an int and
\* a float become number literals that keep their form.
EncodeKey(k) == IF k.t = "str" THEN k ELSE IF k.t = "none" THEN k ELSE PyStr(Digits(k.n))
RECURSIVE JSONEncode(_)
JSONEncode(v) ==
    IF v.t = "dict"
    THEN Py("object", "", 0,
            [i \in DOMAIN v.items |-> Item(EncodeKey(v.items[i].k), JSONEncode(v.items[i].v))])
    ELSE IF v.t \in {"list", "tuple"}
    THEN Py("array", "", 0,
            [i \in DOMAIN v.items |-> Item(PyNone, JSONEncode(v.items[i].v))])
    ELSE IF v.t = "str" THEN Py("string", v.s, 0, << >>)
    ELSE IF v.t = "int" THEN Py("number", "int", v.n, << >>)
    ELSE IF v.t = "float" THEN Py("number", "float", v.n, << >>)
    ELSE Py("null", "", 0, << >>)

\* A dict built by assigning the pairs in order: a key keeps the place of
\* its first assignment and the value of its last.
RECURSIVE Assigned(_)
Assigned(items) ==
    IF items = << >> THEN << >>
    ELSE Bind(Assigned(SubSeq(items, 1, Len(items) - 1)), LAMBDA d :
         Bind(items[Len(items)], LAMBDA last :
              IF \E i \in DOMAIN d : d[i].k = last.k
              THEN [i \in DOMAIN d |-> IF d[i].k = last.k THEN last ELSE d[i]]
              ELSE Append(d, last)))

\* json.load: an object becomes a dict, an array a list, a number literal
\* an int or a float by its form.
RECURSIVE JSONDecode(_)
JSONDecode(doc) ==
    IF doc.t = "object"
    THEN PyDict(Assigned([i \in DOMAIN doc.items |->
                            Item(doc.items[i].k, JSONDecode(doc.items[i].v))]))
    ELSE IF doc.t = "array"
    THEN Py("list", "", 0,
            [i \in DOMAIN doc.items |-> Item(PyNone, JSONDecode(doc.items[i].v))])
    ELSE IF doc.t = "string" THEN PyStr(doc.s)
    ELSE IF doc.t = "number" THEN (IF doc.s = "int" THEN PyInt(doc.n) ELSE PyFloat(doc.n))
    ELSE PyNone

\* safe_json_write and safe_json_read on Python values: the file holds the
\* document json.dump wrote, and the read returns what json.load makes of it.
write_value(w, filepath, data, flt) == safe_json_write(w, filepath, JSONEncode(data), flt)
\* The read that hands back the document as written, not decoded.
read_document(w, filepath, default) ==
    Bind(json_load(w.fs, filepath), LAMBDA j : IF j.ok THEN j.v ELSE default)
read_value(w, filepath, default) ==
    Bind(json_load(w.fs, filepath), LAMBDA j : IF j.ok THEN JSONDecode(j.v) ELSE default)

\* The values the program writes: the registry, the category rules, the
\* balance, the empty mapping.
Supported ==
    {PyDict(<< >>),
     PyDict(<<Item(PyStr("balance"), PyFloat(0))>>),
     PyDict(<<Item(PyStr("balance"), PyFloat(2))>>),
     PyDict(<<Item(PyStr("alice"),
                   PyDict(<<Item(PyStr("password_hash"), PyStr("sha256")),
                            Item(PyStr("balance_file"), PyStr("user_alice_balance.json"))>>))>>),
     PyDict(<<Item(PyStr("Food"), PyList(<<PyStr("grocery"), PyStr("lunch")>>)),
              Item(PyStr("Bills"), PyList(<< >>))>>)}

\* Values json.dump writes but the program never hands it: a tuple, a key
\* that is a number.
Unsupported ==
    {PyDict(<<Item(PyStr("balance"), PyTuple(<<PyInt(1), PyInt(2)>>))>>),
     PyDict(<<Item(PyInt(1), PyStr("one")), Item(PyStr("1"), PyStr("uno"))>>)}

JsonPaths == {USERS_FILE, balance_file_name("alice")}

JsonWrite(filepath, data, flt) ==
    /\ Counted(flt)
    /\ \E r \in {write_value(World, filepath, data, flt)} :
          Called(r.w, Call("dump", None, filepath, data), r.r)

JsonRead(filepath, default) ==
    /\ Called(World, Call("load", None, filepath, default),
              read_value(World, filepath, default))
    /\ UNCHANGED faults

NextJson ==
    \/ \E filepath \in JsonPaths, data \in Supported \cup Unsupported :
          \E flt \in FaultsOf(Faults, {filepath}) : JsonWrite(filepath, data, flt)
    \/ \E filepath \in JsonPaths, default \in {PyNone, PyDict(<< >>)} :
          JsonRead(filepath, default)
SpecJson == Init /\ [][NextJson]_vars

\* C13: after a successful write(path, v) of a supported value, read(path,
\* default) returns exactly v, whatever the default and whether or not the
\* path existed before.
WriteReadRoundTrip ==
    (ui.msg = "dump" /\ ui.ret = TRUE /\ ui.arg \in Supported)
        => \A default \in {PyNone, PyDict(<< >>)} :
              read_value(World, ui.path, default) = ui.arg

WriteReadWitness ==
    /\ ui.msg = "dump" /\ ui.ret = TRUE
    /\ ui.arg = PyDict(<<Item(PyStr("balance"), PyFloat(2))>>)
    /\ ui.path = balance_file_name("alice")
    /\ fs[USERS_FILE].kind = "ok"

\* ------------------------------------------------- the category rules file
\* One account whose runs add expenses under two new category names, the
\* journal write being the write that can fail.
NextRules ==
    Step({"alice"}, {"pw1"}, {"Gifts", "Travel"}, {1}, {2},
         {NoFault} \cup FaultsOn({data_file_name("alice")}))
SpecRules == Init /\ [][NextRules]_vars

\* The category names in the account's persisted rules file.
RulesIn(files, username) ==
    IF files[categories_file_name(username)].kind = "ok"
    THEN Names(files[categories_file_name(username)].v) ELSE {}

\* C15: across any run other than closing or creating the account, a
\* category name in the account's persisted rules file is in the next
\* persisted version of it.
CategoryRulesOnlyGrow ==
    [][ui'.msg \notin {"Account created successfully! Please login",
                       "Account permanently deleted! Redirecting..."}
         => \A u \in Usernames : RulesIn(fs, u) \subseteq RulesIn(fs', u)]_vars

\* ------------------------------------------------------ categorize_expense
\* Text as a sequence of characters, so that case and substrings are what
\* they are in the program.
MaxLen == 3
MaxRules == 3
Chars == {"a", "b", "A", "B"}
lower_char(c) == IF c = "A" THEN "a" ELSE IF c = "B" THEN "b" ELSE c
lower(str) == [i \in DOMAIN str |-> lower_char(str[i])]
\* sub in str
Contains(str, sub) ==
    \E i \in 0..(Len(str) - Len(sub)) : SubSeq(str, i + 1, i + Len(sub)) = sub

\* The policy of the last matching category, not the first.
RECURSIVE categorize_expense_last(_, _)
categorize_expense_last(description, categories) ==
    IF categories = << >> THEN "Other"
    ELSE IF \E j \in DOMAIN categories[Len(categories)].keywords :
               Contains(lower(description), lower(categories[Len(categories)].keywords[j]))
    THEN categories[Len(categories)].name
    ELSE categorize_expense_last(description, SubSeq(categories, 1, Len(categories) - 1))

\* Lines 30-36: the categories in the order of the mapping, the keywords of
\* each in order, the first hit returns.
RECURSIVE categorize_expense(_, _)
categorize_expense(description, categories) ==
    IF categories = << >> THEN "Other"
    ELSE IF \E j \in DOMAIN Head(categories).keywords :
               Contains(lower(description), lower(Head(categories).keywords[j]))
    THEN Head(categories).name
    ELSE categorize_expense(description, Tail(categories))

\* The descriptions typed and the rules held: category names are unique,
\* keywords are lowercase.
Texts(n) == UNION {[1..k -> Chars] : k \in 0..n}
KeywordLists == {<< >>, <<<<"a">>>>, <<<<"b", "b">>, <<"a", "b">>>>, <<<<"b", "a">>>>}
RuleNames == {"Food", "Transport", "Other"}
Rules(n) ==
    {r \in UNION {[1..k -> [name : RuleNames, keywords : KeywordLists]] : k \in 0..n} :
        \A i, j \in DOMAIN r : r[i].name = r[j].name => i = j}

\* A description is typed with some rules loaded; the run then computes the
\* suggestion (line 322).
InitSuggest ==
    /\ fs = [p \in Paths |-> Absent]
    /\ session_state = [auth_stage |-> "app", current_user |-> "alice"]
    /\ data_cache = EmptyDict
    /\ categories_cache = EmptyDict
    /\ \E description \in Texts(MaxLen), categories \in Rules(MaxRules) :
          ui = [msg |-> "typed", user |-> "alice", log |-> {},
                description |-> description, categories |-> categories, ret |-> "Other"]
    /\ faults = 0
    /\ writer = Idle
    /\ runs = NoRuns

Suggest ==
    /\ ui.msg = "typed"
    /\ ui' = [ui EXCEPT !.msg = "suggest",
                        !.ret = categorize_expense(ui.description, ui.categories)]
    /\ UNCHANGED <<fs, session_state, data_cache, categories_cache, faults, writer, runs>>

NextSuggest == Suggest
SpecSuggest == InitSuggest /\ [][NextSuggest]_vars

\* The places in the mapping of the categories one of whose keywords is a
\* substring of the lowercased description.
Matching(description, categories) ==
    {i \in DOMAIN categories :
        \E j \in DOMAIN categories[i].keywords :
           \E from \in 1..(Len(description) + 1), to \in 0..Len(description) :
              SubSeq(lower(description), from, to) = categories[i].keywords[j]}

\* C16: suggest returns "Other" when no keyword of any category is a
\* substring of the lowercased description, and otherwise the first category
\* in the mapping's order that has a matching keyword.
SuggestFirstMatch ==
    ui.msg = "suggest"
        => Bind(Matching(ui.description, ui.categories), LAMBDA m :
                IF m = {} THEN ui.ret = "Other"
                ELSE \E i \in m : /\ \A k \in m : i <= k
                                  /\ ui.ret = ui.categories[i].name)

\* Several categories match a description typed with capitals, and the
\* first category of the mapping is not one of them.
SuggestWitness ==
    /\ ui.msg = "suggest"
    /\ Cardinality(Matching(ui.description, ui.categories)) >= 2
    /\ 1 \notin Matching(ui.description, ui.categories)
    /\ lower(ui.description) # ui.description
    /\ ui.ret # "Other"

\* --------------------------------------------------- the journal of a session
\* One account, logged in, with a journal on disk that the session loads;
\* expenses are then added one at a time and no write fails.  The session
\* remembers the journal it loaded, the files it started from and the
\* entries it added.
JournalDescriptions == {"uber ride", "NA"}
StoredJournals ==
    {EmptyFrame} \cup {<<Entry(d, "Transport", a)>> : d \in JournalDescriptions, a \in {1, 2}}

InitJournal ==
    /\ \E stored \in StoredJournals :
          fs = [p \in Paths |->
                  IF p = USERS_FILE THEN File("alice" :> NewUserData("alice", "pw1"))
                  ELSE IF p = data_file_name("alice") THEN File(to_csv(stored))
                  ELSE IF p = categories_file_name("alice") THEN File(default_categories)
                  ELSE IF p = balance_file_name("alice") THEN File(Balance(2 * MaxJournal))
                  ELSE Absent]
    /\ session_state = [auth_stage |-> "app", current_user |-> "alice"]
    /\ data_cache = EmptyDict
    /\ categories_cache = EmptyDict
    /\ ui = [msg |-> "", user |-> "alice", log |-> {},
             before |-> fs, initial |-> load_user_data(World, "alice", NoFault).r,
             entries |-> << >>]
    /\ faults = 0
    /\ writer = Idle
    /\ runs = NoRuns

\* Lines 318-359, with the entry remembered when the run reports success.
JournalAppend(in) ==
    /\ InApp
    /\ Len(ui.entries) < MaxJournal
    /\ \E username \in {CurrentUser} :
       \E p \in {Prefix(World, username, NoFault)} :
          /\ in.category \in category_options(p.categories)
          /\ \E b \in {Sidebar(p.w, username, NoFault)} :
             \E o \in {AddExpenseClick(b.w, username, p.expenses_df, p.categories, b.r,
                                       in.description, in.amount, in.category,
                                       in.new_category_name, NoFault)} :
             \E w \in {Rerun(o, username, NoFault)} :
                /\ fs' = w.fs
                /\ session_state' = w.session_state
                /\ data_cache' = w.data_cache
                /\ categories_cache' = w.categories_cache
                /\ ui' = [ui EXCEPT
                            !.msg = o.msg, !.log = w.log,
                            !.entries = IF o.msg = "Expense added successfully!"
                                        THEN Append(@, Entry(in.description,
                                                 final_category_of(in.category, in.new_category_name),
                                                 in.amount))
                                        ELSE @]
                /\ UNCHANGED <<faults, writer, runs>>

NextJournal ==
    \E d \in JournalDescriptions \cup {""}, a \in {1, 2}, c \in {"Transport", "Food"} :
       JournalAppend(ExpenseInput(d, a, c, ""))
SpecJournal == InitJournal /\ [][NextJournal]_vars

\* C17: when no write fails, after entries e1..en were appended one at a
\* time the persisted journal is the one a single save of the initial
\* journal followed by e1..en leaves.
AppendsEqualOneSave ==
    ui.msg = "Expense added successfully!"
        => Bind(save_user_data([World EXCEPT !.fs = ui.before], "alice",
                               ui.initial \o ui.entries, NoFault), LAMBDA once :
                /\ once.r
                /\ fs[data_file_name("alice")] = once.w.fs[data_file_name("alice")])

AppendsWitness ==
    /\ ui.msg = "Expense added successfully!"
    /\ Len(ui.initial) = 1 /\ ui.initial[1].Description = NaN
    /\ Len(ui.entries) = 2 /\ ui.entries[1] # ui.entries[2]
    /\ Len(JournalIn(fs, "alice")) = 3

\* The runs of the add-expense transaction that reach the writes.
Transactions == {"Expense added successfully!", "Failed to save expense"}

\* C18: the journal is written before the balance is debited and the debit
\* is attempted only after the journal write succeeded, so that in every
\* reachable state, also after a failed write, what was debited from a
\* balance is in the persisted journal: an add-expense run that lowers the
\* persisted balance has added as much to the persisted journal, and no
\* add-expense run takes amounts out of the persisted journal.
DebitedMeansJournaled ==
    [][ui'.msg \in Transactions
         => \A u \in Usernames :
               /\ total_spent(JournalIn(fs', u)) >= total_spent(JournalIn(fs, u))
               /\ BalanceIn(fs', u) < BalanceIn(fs, u)
                     => total_spent(JournalIn(fs', u)) - total_spent(JournalIn(fs, u))
                           >= BalanceIn(fs, u) - BalanceIn(fs', u)]_vars

\* --------------------------------------------- two sessions creating accounts
\* Each session runs the Create Account branch (lines 647-657) in its own
\* thread; the runs interleave between their reads and writes of the files.
\* runs[s].pc names the statement about to run, runs[s].users the registry
\* as that run loaded it.
Goto(s, pc, users, msg) ==
    runs' = [runs EXCEPT ![s] = [@ EXCEPT !.pc = pc, !.users = users, !.msg = msg]]
Apart == UNCHANGED <<session_state, data_cache, categories_cache, faults, writer>>

\* The button is pressed with a username and matching passwords.
RaceClick(s, new_user) ==
    /\ runs[s].pc = "idle"
    /\ runs' = [runs EXCEPT ![s] = [@ EXCEPT !.pc = "check_read", !.new_user = new_user]]
    /\ UNCHANGED <<fs, ui>>
    /\ Apart

\* Lines 100-101, in load_users called from line 652 and from line 116.
RaceRead(s) ==
    /\ runs[s].pc \in {"check_read", "load_read"}
    /\ \E w \in {ensure_directory_exists(World, NoFault)} :
          /\ fs' = w.fs
          /\ Goto(s, IF runs[s].pc = "check_read" THEN "check_write" ELSE "load_write",
                  safe_json_read(w, USERS_FILE, EmptyDict), "")
    /\ UNCHANGED ui
    /\ Apart

\* Lines 104-112: the registry as this run loaded it is written back.  After
\* the load of line 652 the name is looked up in it.
RaceRewrite(s) ==
    /\ runs[s].pc \in {"check_write", "load_write"}
    /\ \E w \in {HealFiles(World, runs[s].users, NoFault)} :
       \E healed \in {Healed(runs[s].users)} :
          /\ fs' = safe_json_write(w, USERS_FILE, healed, NoFault).w.fs
          /\ IF runs[s].pc = "load_write" THEN Goto(s, "files", healed, "") /\ UNCHANGED ui
             ELSE IF runs[s].new_user \in DOMAIN healed
             THEN /\ Goto(s, "done", healed, "Username already exists")
                  /\ ui' = [msg |-> "Username already exists", user |-> runs[s].new_user, log |-> {}]
             ELSE Goto(s, "load_read", healed, "") /\ UNCHANGED ui
    /\ Apart

\* Lines 124-145.
RaceFiles(s) ==
    /\ runs[s].pc = "files"
    /\ fs' = create_files(World, NewUserData(runs[s].new_user, "pw1"), NoFault).w.fs
    /\ Goto(s, "store", runs[s].users, "")
    /\ UNCHANGED ui
    /\ Apart

\* Lines 148-150 and 654-655.
RaceStore(s) ==
    /\ runs[s].pc = "store"
    /\ fs' = store_users(World, runs[s].users, runs[s].new_user,
                         NewUserData(runs[s].new_user, "pw1"), NoFault).fs
    /\ Goto(s, "done", runs[s].users, "Account created successfully! Please login")
    /\ ui' = [msg |-> "Account created successfully! Please login",
              user |-> runs[s].new_user, log |-> {}]
    /\ Apart

NextRace ==
    \E s \in Sessions :
       \/ \E new_user \in Usernames : RaceClick(s, new_user)
       \/ RaceRead(s)
       \/ RaceRewrite(s)
       \/ RaceFiles(s)
       \/ RaceStore(s)
SpecRace == Init /\ [][NextRace]_vars

\* C20: each session reads the whole registry, adds its account and
\* rewrites the whole registry: the registry a creation leaves is the
\* registry that run loaded plus its own account, whatever another session
\* wrote in between ...
RegistryRewrittenInFull ==
    [][\A s \in Sessions :
          (runs[s].pc = "store" /\ runs'[s].pc = "done")
             => Registry(fs') = (runs[s].new_user :> NewUserData(runs[s].new_user, "pw1"))
                                   @@ runs[s].users]_vars

\* ... so an interleaving is reachable in which two sessions created
\* different accounts, both reported success, and the registry holds only
\* one of the two accounts.
LostCreation ==
    /\ \A s \in Sessions : /\ runs[s].pc = "done"
                           /\ runs[s].msg = "Account created successfully! Please login"
    /\ runs[1].new_user # runs[2].new_user
    /\ Cardinality(DOMAIN Registry(fs)) = 1

\* C21: the journal persisted for an account holds only entries added while
\* that account was logged in: a run changes an account's persisted journal
\* only by appending one entry to it in an add-expense run of that account,
\* or by emptying it in a wipe, a creation or a closure.
JournalHoldsOwnEntries ==
    [][\A u \in Usernames :
          \/ JournalIn(fs', u) = JournalIn(fs, u)
          \/ /\ ui'.user = u
             /\ ui'.msg \in Transactions
             /\ Len(JournalIn(fs', u)) = Len(JournalIn(fs, u)) + 1
             /\ SubSeq(JournalIn(fs', u), 1, Len(JournalIn(fs, u))) = JournalIn(fs, u)
          \/ /\ ui'.msg \in Adjusting
             /\ JournalIn(fs', u) = EmptyFrame]_vars

\* C22: an expense whose add attempt reported failure is not persisted
\* later: after a failed add-expense the journal of the session equals the
\* persisted journal, and a successful add-expense leaves the previously
\* persisted entries plus the new one.
FailedExpenseNotPersisted ==
    [][/\ ui'.msg = "Failed to save expense"
             => session_state'.expenses_df = JournalIn(fs', ui'.user)
       /\ ui'.msg = "Expense added successfully!"
             => /\ Len(JournalIn(fs', ui'.user)) = Len(JournalIn(fs, ui'.user)) + 1
                /\ SubSeq(JournalIn(fs', ui'.user), 1, Len(JournalIn(fs, ui'.user)))
                      = JournalIn(fs, ui'.user)]_vars

\* The usernames of the persisted registry, each with its password hash.
Credentials(files) ==
    [n \in DOMAIN Registry(files) |-> Registry(files)[n].password_hash]

\* C23: an operation that only reads (here a load of the registry, a read of
\* a file, a read of a balance) leaves the usernames and the password hashes
\* of the persisted registry as they were, whether or not the registry file
\* is readable and whether or not the rewrite inside load_users succeeds.
ReadsKeepRegistry ==
    [][ui'.msg \in {"load", "read", "get"} => Credentials(fs') = Credentials(fs)]_vars

StageOf(state) == state.auth_stage
UserOf(state) == IF "current_user" \in DOMAIN state THEN state.current_user ELSE None
AuthMessages ==
    {"User Authentication", "Incorrect master code", "Welcome",
     "Invalid username or password", "Username and password are required",
     "Passwords don't match", "Username already exists",
     "Account created successfully! Please login", "Failed to create account"}

====
